---- MODULE Spec2Model ----
(***************************************************************************)
(* A model of the process supervisor of dawn-process-runner                *)
(* (src/src/managed_process.rs): one ManagedProcess, the operating-system  *)
(* processes it spawns, the capture threads that fill its log buffer, and  *)
(* the socket table its port fallback reads; and of the main loop of the   *)
(* dashboard (src/src/main.rs) with its registry of supervisors.           *)
(*                                                                         *)
(* An Option<T> is a sequence of length at most one: None is << >> and     *)
(* Some(x) is <<x>>.                                                       *)
(***************************************************************************)
EXTENDS Integers, Sequences, FiniteSets, TLC

\* ------------------------------------------------------------------ bounds
\* At most MaxClock readings of the monotonic clock (Instant::now()).
MaxClock == 4
\* The log buffer is followed up to MaxLogLen lines in Spec.
MaxLogLen == 3
\* A socket table has at most MaxTableLen lines in SpecResolver.
MaxTableLen == 2
\* The children write at most MaxLines lines in all in SpecCapture.
MaxLines == 2
\* main() reads at most MaxKeys key presses in SpecMain.
MaxKeys == 3

\* --------------------------------------------------------- program constants
MAX_LOG_LINES == 2000

\* ------------------------------------------------------------- value domains
None == << >>
Some(x) == <<x>>

\* Process ids the OS hands to children of the supervisor, and process ids of
\* processes it did not spawn (a detached worker, an unrelated server).
ChildPids == {1, 2}
ForeignPids == {7, 9}

\* ProcessConfig.cmd: empty, or an executable with arguments.
Commands == {<< >>, <<"sh", "-c">>}
\* ProcessConfig.port
Ports == {None, Some(80)}

\* Exit statuses: the codes a child exits with on its own, and the status of
\* a child ended by the graceful signal.
OwnExits == {"code0", "code1"}
TermExits == {"code0", "signal15"}

\* What a child prints on a stream.
ChildLines == {"hi"}

\* ------------------------------------------------------------------- strings
DigitChar == <<"0", "1", "2", "3", "4", "5", "6", "7", "8", "9">>

\* Decimal notation of a non-negative integer below ten million (a u16 port,
\* a pid below the kernel's pid_max), written without recursion.
Pow10 == <<1, 10, 100, 1000, 10000, 100000, 1000000>>

NumDigits(n) ==
  IF n < 10 THEN 1
  ELSE IF n < 100 THEN 2
  ELSE IF n < 1000 THEN 3
  ELSE IF n < 10000 THEN 4
  ELSE IF n < 100000 THEN 5
  ELSE IF n < 1000000 THEN 6
  ELSE 7

\* the decimal digits of n, most significant first
Digits(n) ==
  [i \in 1..NumDigits(n) |-> (n \div Pow10[NumDigits(n) - i + 1]) % 10]

\* format!("{}", n) / n.to_string()
to_string(n) ==
  LET d == Digits(n)
      c(i) == DigitChar[d[i] + 1]
  IN CASE Len(d) = 1 -> c(1)
       [] Len(d) = 2 -> c(1) \o c(2)
       [] Len(d) = 3 -> c(1) \o c(2) \o c(3)
       [] Len(d) = 4 -> c(1) \o c(2) \o c(3) \o c(4)
       [] Len(d) = 5 -> c(1) \o c(2) \o c(3) \o c(4) \o c(5)
       [] Len(d) = 6 -> c(1) \o c(2) \o c(3) \o c(4) \o c(5) \o c(6)
       [] OTHER -> c(1) \o c(2) \o c(3) \o c(4) \o c(5) \o c(6) \o c(7)

RECURSIVE join(_, _)
\* Vec<String>::join(sep)
join(v, sep) ==
  IF Len(v) = 0 THEN ""
  ELSE IF Len(v) = 1 THEN v[1]
  ELSE v[1] \o sep \o join(Tail(v), sep)

IsPrefix(a, b) == Len(a) <= Len(b) /\ SubSeq(b, 1, Len(a)) = a

\* ------------------------------------------------------------- socket table
\* A line of `ss -lptn` is a record: `local`, the local port of a listening
\* socket, and `pid`, Some(N) when the line carries a
\* users:(("name",pid=N,...)) field and None when it does not.  A table is
\* None when ss cannot be run and Some(lines) otherwise.

\* line.contains(&format!(":{}", port)): the only ':' of a line that digits
\* follow is the one before the local port, so the text ":<port>" occurs in
\* the line exactly when the digits of port begin the digits of the local port.
line_contains_port(line, port) == IsPrefix(Digits(port), Digits(line.local))

\* the `for line in stdout.lines()` loop of pid_from_port: the pid of the
\* first line that contains the port and has a pid= field with digits
scan_lines(lines, port) ==
  LET hits == {i \in 1..Len(lines) :
                 line_contains_port(lines[i], port) /\ lines[i].pid # None}
  IN IF hits = {} THEN None
     ELSE LET first == CHOOSE i \in hits : \A j \in hits : i <= j
          IN Some(to_string(lines[first].pid[1]))

pid_from_port(port, table) ==
  IF table = None THEN None ELSE scan_lines(table[1], port)

\* -------------------------------------------------------------------- state
VARIABLES
  command,        \* ManagedProcess.command (immutable after new())
  port,           \* ManagedProcess.port    (immutable after new())
  child,          \* ManagedProcess.child: Option of the child's pid
  logs,           \* ManagedProcess.logs: the shared Vec<String>
  started_at,     \* ManagedProcess.started_at: Option<Instant>
  exit_status,    \* ManagedProcess.exit_status: Option<ExitStatus>
  special_status, \* ManagedProcess.special_status: Option<String>
  now,            \* the latest reading of the monotonic clock
  os,             \* per child pid: "none", "alive", or the exit status of an
                  \* exited child nobody has waited for yet
  readers,        \* the running capture threads: [run, stream]
  op,             \* the operation that ran last
  ret,            \* what it returned (status()), "" otherwise
  sent,           \* the kill commands it ran, in order: [sig, pid]
  spawned,        \* how many children it spawned
  resolved,       \* None, or Some(what pid_from_port returned to it)
  last_started,   \* history: the start timestamp recorded most recently
  forced,         \* history: a stop() has met a running child that did
                  \* not exit within GRACEFUL_TIMEOUT, and start() has not
                  \* been called since
  ss_output,      \* the output of `ss -lptn` (SpecResolver)
  capture,        \* per capture thread: what its stream produced, how much
                  \* of it the thread has read, the line it holds (SpecCapture)
  RUNNING,        \* main.rs: static RUNNING (SpecMain)
  app,            \* main.rs: App (SpecMain)
  pc,             \* main.rs: where main() is (SpecMain)
  keys            \* main.rs: how many key presses main() has read (SpecMain)

vars == <<command, port, child, logs, started_at, exit_status, special_status,
          now, os, readers, op, ret, sent, spawned, resolved, last_started,
          forced, ss_output, capture, RUNNING, app, pc, keys>>

\* The variables of main.rs, and those with the socket table and the streams
main_vars == <<RUNNING, app, pc, keys>>
io_vars == <<ss_output, capture>>

\* The state as one record, at the entry of operation o.
Enter(o) ==
  [child |-> child, logs |-> logs, started_at |-> started_at,
   exit_status |-> exit_status, special_status |-> special_status,
   now |-> now, os |-> os, readers |-> readers,
   op |-> o, ret |-> "", sent |-> << >>, spawned |-> 0, resolved |-> None,
   last_started |-> last_started, ignored |-> FALSE]

\* The fields an operation leaves, with the log followed up to n lines.
Commit(s, n) ==
  /\ s.now <= MaxClock
  /\ Len(s.logs) <= n
  /\ child' = s.child
  /\ logs' = s.logs
  /\ started_at' = s.started_at
  /\ exit_status' = s.exit_status
  /\ special_status' = s.special_status
  /\ now' = s.now
  /\ os' = s.os
  /\ readers' = s.readers
  /\ op' = s.op
  /\ ret' = s.ret
  /\ sent' = s.sent
  /\ spawned' = s.spawned
  /\ resolved' = s.resolved
  /\ last_started' = s.last_started
  /\ forced' = CASE s.op = "stop" -> (forced \/ s.ignored)
                [] s.op \in {"start", "restart"} -> FALSE
                [] OTHER -> forced
  /\ UNCHANGED <<command, port>>

\* The state an operation leaves, with the log followed up to n lines.
LeaveWithin(s, n) ==
  /\ Commit(s, n)
  /\ UNCHANGED <<io_vars, main_vars>>

Leave(s) == LeaveWithin(s, MaxLogLen)

\* ManagedProcess::new
New ==
  /\ command \in Commands
  /\ port \in Ports
  /\ child = None
  /\ logs = << >>
  /\ started_at = None
  /\ exit_status = None
  /\ special_status = None
  /\ now = 0
  /\ os = [p \in ChildPids |-> "none"]
  /\ readers = {}
  /\ op = "new"
  /\ ret = ""
  /\ sent = << >>
  /\ spawned = 0
  /\ resolved = None
  /\ last_started = None
  /\ forced = FALSE

\* No socket table read and no stream opened yet.
NoIo ==
  /\ ss_output = None
  /\ capture = << >>

\* One supervisor on its own, with no main() around it.
NoMain ==
  /\ RUNNING = TRUE
  /\ app = [processes |-> << >>, selected |-> 0, view |-> "List",
            log_scroll |-> 0]
  /\ pc = "none"
  /\ keys = 0

Init == New /\ NoIo /\ NoMain

\* --------------------------------------------------------------- operations
\* Instant::now(): both places that read the clock (start, after cmd.spawn();
\* stop, after the kill command) have just run an external command, which
\* takes time, so each reading is later than the reading before it.  The code
\* only stores and compares readings: `now` is the rank of the latest reading
\* among all readings so far, which keeps their order.
elapse(s) == [s EXCEPT !.now = @ + 1]

push_log(s, msg) == [s EXCEPT !.logs = Append(@, msg)]

\* spawn_reader, called for stdout and for stderr of the child of run `run`
spawn_reader(s, run, stream) ==
  [s EXCEPT !.readers = @ \cup {[run |-> run, stream |-> stream]}]

\* Command::new("kill").args(["-<sig>", pid]).output()
kill(s, sig, pid) == [s EXCEPT !.sent = Append(@, [sig |-> sig, pid |-> pid])]

\* start() without its `if self.command.is_empty()` branch: it goes on to
\* spawn, and the spawn fails
start_without_empty_check(s, spawn_result) ==
  IF s.child # None THEN s
  ELSE LET t == elapse(s)
       IN IF spawn_result # None
          THEN LET pid == spawn_result[1]
                   a == [t EXCEPT !.os[pid] = "alive", !.spawned = @ + 1,
                                  !.started_at = Some(t.now),
                                  !.last_started = Some(t.now),
                                  !.exit_status = None]
                   b == push_log(a, "Started: " \o join(command, " "))
                   c == spawn_reader(b, t.now, "stdout")
                   d == spawn_reader(c, t.now, "stderr")
               IN [d EXCEPT !.child = Some(pid)]
          ELSE push_log(t, "Failed to start: No such file or directory")

\* start() without its `if self.child.is_some() { return; }`
start_unguarded(s, spawn_result) ==
  IF Len(command) = 0 THEN push_log(s, "Command is empty")
  ELSE LET t == elapse(s)
       IN IF spawn_result # None
          THEN LET pid == spawn_result[1]
                   a == [t EXCEPT !.os[pid] = "alive", !.spawned = @ + 1,
                                  !.started_at = Some(t.now),
                                  !.last_started = Some(t.now),
                                  !.exit_status = None]
                   b == push_log(a, "Started: " \o join(command, " "))
                   c == spawn_reader(b, t.now, "stdout")
                   d == spawn_reader(c, t.now, "stderr")
               IN [d EXCEPT !.child = Some(pid)]
          ELSE push_log(t, "Failed to start: No such file or directory")

\* start() without `self.exit_status = None`
start_keeps_exit_status(s, spawn_result) ==
  IF s.child # None THEN s
  ELSE IF Len(command) = 0 THEN push_log(s, "Command is empty")
  ELSE LET t == elapse(s)
       IN IF spawn_result # None
          THEN LET pid == spawn_result[1]
                   a == [t EXCEPT !.os[pid] = "alive", !.spawned = @ + 1,
                                  !.started_at = Some(t.now),
                                  !.last_started = Some(t.now)]
                   b == push_log(a, "Started: " \o join(command, " "))
                   c == spawn_reader(b, t.now, "stdout")
                   d == spawn_reader(c, t.now, "stderr")
               IN [d EXCEPT !.child = Some(pid)]
          ELSE push_log(t, "Failed to start: No such file or directory")

\* start(): spawn_result is what cmd.spawn() gives, None for Err(e) and
\* Some(pid) for Ok(child).
start(s, spawn_result) ==
  IF s.child # None THEN s
  ELSE IF Len(command) = 0 THEN push_log(s, "Command is empty")
  ELSE LET t == elapse(s)
       IN IF spawn_result # None
          THEN LET pid == spawn_result[1]
                   a == [t EXCEPT !.os[pid] = "alive", !.spawned = @ + 1,
                                  !.started_at = Some(t.now),
                                  !.last_started = Some(t.now),
                                  !.exit_status = None]
                   b == push_log(a, "Started: " \o join(command, " "))
                   c == spawn_reader(b, t.now, "stdout")
                   d == spawn_reader(c, t.now, "stderr")
               IN [d EXCEPT !.child = Some(pid)]
          ELSE push_log(t, "Failed to start: No such file or directory")

\* stop() without `if !success`: it force-kills also after a graceful exit
stop_child_always_forces(s, term) ==
  IF s.child = None THEN s
  ELSE LET pid == s.child[1]
           a == [s EXCEPT !.child = None, !.special_status = Some("Killing")]
           b == elapse(kill(a, 15, to_string(pid)))
           waited == IF s.os[pid] = "alive" THEN term ELSE Some(s.os[pid])
           g == IF waited # None
                THEN LET c == [b EXCEPT !.os[pid] = "none",
                                        !.exit_status = waited,
                                        !.started_at = None]
                         d == push_log(c, "Stopped gracefully")
                     IN [d EXCEPT !.special_status = Some("Killed Gracefully")]
                ELSE b
           h == kill(g, 9, to_string(pid))
           i == [h EXCEPT !.os[pid] = "none",
                          !.special_status = Some("Force Killed")]
       IN push_log(i, "Force killed")

\* stop() whose force-kill branch sends no signal 9: it only waits.
stop_child_unforced(s, term) ==
  IF s.child = None THEN s
  ELSE LET pid == s.child[1]
           a == [s EXCEPT !.child = None, !.special_status = Some("Killing")]
           b == elapse(kill(a, 15, to_string(pid)))
           waited == IF s.os[pid] = "alive" THEN term ELSE Some(s.os[pid])
       IN IF waited # None
          THEN LET c == [b EXCEPT !.os[pid] = "none",
                                  !.exit_status = waited,
                                  !.started_at = None]
                   d == push_log(c, "Stopped gracefully")
               IN [d EXCEPT !.special_status = Some("Killed Gracefully")]
          ELSE LET d == [b EXCEPT !.os[pid] = "none",
                                  !.special_status = Some("Force Killed")]
               IN push_log(d, "Force killed")

\* The first half of stop(): the child taken out of self.child.  `term` is
\* what the child does with signal 15 when it is still running: None when it
\* has not exited by the end of GRACEFUL_TIMEOUT, Some(status) when it has.
stop_child(s, term) ==
  IF s.child = None THEN s
  ELSE LET pid == s.child[1]
           a == [s EXCEPT !.child = None, !.special_status = Some("Killing")]
           b == elapse(kill(a, 15, to_string(pid)))
           \* child.try_wait() in the polling loop
           waited == IF s.os[pid] = "alive" THEN term ELSE Some(s.os[pid])
       IN IF waited # None
          THEN LET c == [b EXCEPT !.os[pid] = "none",
                                  !.exit_status = waited,
                                  !.started_at = None]
                   d == push_log(c, "Stopped gracefully")
               IN [d EXCEPT !.special_status = Some("Killed Gracefully")]
          ELSE LET c == kill(b, 9, to_string(pid))
                   \* child.wait()
                   d == [c EXCEPT !.os[pid] = "none",
                                  !.special_status = Some("Force Killed")]
               IN push_log(d, "Force killed")

\* The kill by port without `if let Some(pid)`: it logs a kill whatever
\* pid_from_port returned.
stop_port_logs_always(s, table) ==
  IF port = None THEN s
  ELSE LET a == [s EXCEPT !.special_status = Some("Killing By Port")]
           found == pid_from_port(port[1], table)
           b == [a EXCEPT !.resolved = Some(found)]
           pid == IF found # None THEN found[1] ELSE ""
           c == IF found # None THEN kill(b, 9, pid) ELSE b
           d == push_log(c, "Killed PID " \o pid \o " on port "
                             \o to_string(port[1]))
       IN [d EXCEPT !.special_status = Some("Killed " \o pid)]

\* The second half of stop(): the kill by port.
stop_port(s, table) ==
  IF port = None THEN s
  ELSE LET a == [s EXCEPT !.special_status = Some("Killing By Port")]
           found == pid_from_port(port[1], table)
           b == [a EXCEPT !.resolved = Some(found)]
       IN IF found # None
          THEN LET c == kill(b, 9, found[1])
                   d == push_log(c, "Killed PID " \o found[1] \o " on port "
                                     \o to_string(port[1]))
               IN [d EXCEPT !.special_status = Some("Killed " \o found[1])]
          ELSE b

\* stop() that empties the log buffer
stop_clears_logs(s, term, table) ==
  [stop_port(stop_child(s, term), table) EXCEPT !.started_at = None,
                                                !.logs = << >>]

\* stop() that runs the kill by port only when it had to force-kill, or held
\* no child
stop_port_unless_graceful(s, term, table) ==
  LET a == stop_child(s, term)
      b == IF a.special_status = Some("Killed Gracefully") /\ s.child # None
           THEN a ELSE stop_port(a, table)
  IN [b EXCEPT !.started_at = None]

\* stop() without its last line, `self.started_at = None`
stop_keeps_started_at(s, term, table) ==
  stop_port(stop_child(s, term), table)

\* stop() that returns at once when it holds no child
stop_only_with_child(s, term, table) ==
  IF s.child = None THEN s
  ELSE [stop_port(stop_child(s, term), table) EXCEPT !.started_at = None]

stop(s, term, table) ==
  [stop_port(stop_child(s, term), table) EXCEPT !.started_at = None]

\* restart() with its two calls in the other order
restart_start_first(s, term, table, spawn_result) ==
  stop(start(s, spawn_result), term, table)

restart(s, term, table, spawn_result) ==
  start(stop(s, term, table), spawn_result)

\* status() that looks at the child before it looks at special_status
status_liveness_first(s) ==
  IF s.child # None
  THEN LET pid == s.child[1]
       IN IF s.os[pid] # "alive"
          THEN [s EXCEPT !.exit_status = Some(s.os[pid]),
                         !.os[pid] = "none",
                         !.child = None,
                         !.started_at = None,
                         !.ret = "Stopped"]
          ELSE [s EXCEPT !.ret = "Running"]
  ELSE IF s.special_status # None THEN [s EXCEPT !.ret = s.special_status[1]]
  ELSE [s EXCEPT !.ret = "Stopped"]

status(s) ==
  IF s.special_status # None THEN [s EXCEPT !.ret = s.special_status[1]]
  ELSE IF s.child # None
       THEN LET pid == s.child[1]
            IN IF s.os[pid] # "alive"
               THEN [s EXCEPT !.exit_status = Some(s.os[pid]),
                              !.os[pid] = "none",
                              !.child = None,
                              !.started_at = None,
                              !.ret = "Stopped"]
               ELSE [s EXCEPT !.ret = "Running"]
       ELSE [s EXCEPT !.ret = "Stopped"]

\* ------------------------------------------------------------------ actions
\* What cmd.spawn() gives in state s: an error, or a child with a pid the OS
\* has free.  (One value where start() does not come to call it.)
SpawnResults(s) ==
  IF s.child # None \/ Len(command) = 0 THEN {None}
  ELSE {None} \cup {Some(p) : p \in {q \in ChildPids : s.os[q] = "none"}}

\* What a running child does with signal 15.  (One value where stop() holds
\* no running child to signal.)
TermResults(s) ==
  IF s.child = None THEN {None}
  ELSE IF s.os[s.child[1]] # "alive" THEN {None}
  ELSE {None} \cup {Some(st) : st \in TermExits}

\* The socket tables stop() meets: ss fails; no socket; a socket on another
\* port; the port on a line without pid= and then on a line with one; a
\* longer port number that begins with the digits of the port; the port.
AllStopTables ==
  {None,
   Some(<< >>),
   Some(<<[local |-> 22, pid |-> Some(7)]>>),
   Some(<<[local |-> 80, pid |-> None], [local |-> 80, pid |-> Some(9)]>>),
   Some(<<[local |-> 8080, pid |-> Some(7)], [local |-> 80, pid |-> Some(9)]>>),
   Some(<<[local |-> 80, pid |-> Some(7)]>>)}

\* (One value where stop() does not come to read the table.)
StopTables == IF port = None THEN {None} ELSE AllStopTables

Start ==
  \E r \in SpawnResults(Enter("start")) :
     Leave(start(Enter("start"), r))

\* The state at the entry of a stop(), with the note whether its child is
\* running and will not have exited when GRACEFUL_TIMEOUT has elapsed.
EnterStop(o, term) ==
  [Enter(o) EXCEPT !.ignored =
     (child # None /\ os[child[1]] = "alive" /\ term = None)]

Stop ==
  \E term \in TermResults(Enter("stop")), table \in StopTables :
     Leave(stop(EnterStop("stop", term), term, table))

Restart ==
  \E term \in TermResults(Enter("restart")), table \in StopTables :
     \E r \in SpawnResults(stop(Enter("restart"), term, table)) :
        Leave(restart(Enter("restart"), term, table, r))

Status ==
  \E s \in {Enter("status")} : Leave(status(s))

\* logs(): a copy of the buffer, line by line; the state stays as it is.
logs_snapshot(s) == [i \in 1..Len(s.logs) |-> s.logs[i]]

Logs ==
  \E s \in {Enter("logs")} :
     /\ logs_snapshot(s) = logs
     /\ Leave(s)

\* The child of the supervisor exits on its own.
ChildExit ==
  /\ \E p \in ChildPids, st \in OwnExits :
       /\ os[p] = "alive"
       /\ os' = [os EXCEPT ![p] = st]
  /\ op' = "exit"
  /\ ret' = ""
  /\ sent' = << >>
  /\ spawned' = 0
  /\ resolved' = None
  /\ UNCHANGED <<command, port, child, logs, started_at, exit_status,
                 special_status, now, readers, last_started, forced,
                 io_vars, main_vars>>

\* The process whose streams reader r reads is still running.
Writing(r) ==
  /\ child # None
  /\ started_at = Some(r.run)
  /\ os[child[1]] = "alive"

\* One turn of the loop of a capture thread: a line read and pushed.
ReaderLine ==
  /\ \E r \in readers, line \in ChildLines :
       /\ Len(logs) < MaxLogLen
       /\ logs' = Append(logs, line)
  /\ op' = "reader"
  /\ ret' = ""
  /\ sent' = << >>
  /\ spawned' = 0
  /\ resolved' = None
  /\ UNCHANGED <<command, port, child, started_at, exit_status,
                 special_status, now, os, readers, last_started, forced,
                 io_vars, main_vars>>

\* A capture thread reaches the end of its stream and ends.
ReaderEnd ==
  /\ \E r \in readers :
       /\ ~Writing(r)
       /\ readers' = readers \ {r}
  /\ op' = "reader"
  /\ ret' = ""
  /\ sent' = << >>
  /\ spawned' = 0
  /\ resolved' = None
  /\ UNCHANGED <<command, port, child, logs, started_at, exit_status,
                 special_status, now, os, last_started, forced,
                 io_vars, main_vars>>

Next ==
  \/ Start
  \/ Stop
  \/ Restart
  \/ Status
  \/ Logs
  \/ ChildExit
  \/ ReaderLine
  \/ ReaderEnd

Spec == Init /\ [][Next]_vars

\* A supervisor whose command is empty, and nothing but start() called on it:
\* every call pushes one line.  The log is followed one line past
\* MAX_LOG_LINES.
InitLogs == Init /\ command = << >>

StartOnly ==
  \E r \in SpawnResults(Enter("start")) :
     LeaveWithin(start(Enter("start"), r), MAX_LOG_LINES + 1)

SpecLogs == InitLogs /\ [][StartOnly]_vars

\* ------------------------------------------------------------ the resolver
\* pid_from_port on its own: a port is configured, `ss -lptn` has printed any
\* table of up to MaxTableLen sockets (or has failed), and the supervisor
\* resolves the port, on its own or in a stop().
TablePorts == {22, 80, 8080}
TableLines == [local : TablePorts, pid : {None} \cup {Some(p) : p \in ForeignPids}]
Tables ==
  {None} \cup {Some(t) : t \in UNION {[1..n -> TableLines] : n \in 0..MaxTableLen}}

InitResolver ==
  /\ New
  /\ port # None
  /\ ss_output \in Tables
  /\ capture = << >>
  /\ NoMain

Resolve ==
  /\ port # None
  /\ resolved' = Some(pid_from_port(port[1], ss_output))
  /\ op' = "pid_from_port"
  /\ ret' = ""
  /\ sent' = << >>
  /\ spawned' = 0
  /\ UNCHANGED <<command, port, child, logs, started_at, exit_status,
                 special_status, now, os, readers, last_started, forced,
                 io_vars, main_vars>>

StopResolving ==
  \E term \in TermResults(Enter("stop")) :
     Leave(stop(EnterStop("stop", term), term, ss_output))

NextResolver ==
  \/ Resolve
  \/ StopResolving

SpecResolver == InitResolver /\ [][NextResolver]_vars

\* ------------------------------------------------------- the capture threads
\* The capture threads step by step: the child writes lines to its stdout and
\* stderr pipes; the thread of a stream reads the next line (reader.lines()),
\* drops it when it is an Err (.flatten()), and otherwise locks the log and
\* pushes it.  A line is the text the pipe carried and whether its bytes are
\* valid UTF-8: BufRead::lines() gives Err(InvalidData) for a line that is
\* not.  The text of a line names its stream, its run and its place in the
\* stream, so that every line of the log tells where it came from.
LineText(r, i) == r.stream \o "-" \o to_string(r.run) \o "-" \o to_string(i)

\* The lines the children have written so far, each with its stream.
Written(c) ==
  {<<r, i>> : r \in DOMAIN c, i \in 1..MaxLines} \cap
  UNION {{<<r, i>> : i \in 1..Len(c[r].produced)} : r \in DOMAIN c}

\* capture[r] for a thread that has just been spawned
Opened == [produced |-> << >>, taken |-> 0, held |-> None]

\* The capture threads rs, those among them that are new with their streams
\* just opened.
Adopt(c, rs) ==
  [r \in (DOMAIN c) \cup rs |-> IF r \in DOMAIN c THEN c[r] ELSE Opened]

\* reader.lines().flatten(): the item of an Ok line, nothing for an Err
lines_flatten(raw) == IF raw.utf8 THEN Some(raw.text) ELSE None

InitCapture ==
  /\ New
  /\ Len(command) > 0
  /\ port = None
  /\ NoIo
  /\ NoMain

\* What the supervisor's trace variables show after a step of a child or of
\* a capture thread.
NoCall(o) ==
  /\ op' = o
  /\ ret' = ""
  /\ sent' = << >>
  /\ spawned' = 0
  /\ resolved' = None

StartCapturing ==
  \E r \in SpawnResults(Enter("start")) :
     /\ Commit(start(Enter("start"), r), MaxLogLen)
     /\ capture' = Adopt(capture, start(Enter("start"), r).readers)
     /\ UNCHANGED <<ss_output, main_vars>>

RestartCapturing ==
  \E term \in TermResults(Enter("restart")), table \in StopTables :
     \E r \in SpawnResults(stop(Enter("restart"), term, table)) :
        /\ Commit(restart(Enter("restart"), term, table, r), MaxLogLen)
        /\ capture' = Adopt(capture,
                            restart(Enter("restart"), term, table, r).readers)
        /\ UNCHANGED <<ss_output, main_vars>>

\* The running child writes a line to one of its streams.
ChildWrite ==
  /\ \E r \in readers, utf8 \in BOOLEAN :
       /\ Writing(r)
       /\ Cardinality(Written(capture)) < MaxLines
       /\ capture' =
            [capture EXCEPT ![r].produced =
               Append(@, [text |-> LineText(r, Len(@) + 1), utf8 |-> utf8])]
  /\ NoCall("write")
  /\ UNCHANGED <<command, port, child, logs, started_at, exit_status,
                 special_status, now, os, readers, last_started, forced,
                 ss_output, main_vars>>

\* A capture thread takes the next line off its pipe.
CaptureRead ==
  /\ \E r \in readers :
       /\ capture[r].held = None
       /\ capture[r].taken < Len(capture[r].produced)
       /\ capture' =
            [capture EXCEPT
               ![r].taken = @ + 1,
               ![r].held = lines_flatten(capture[r].produced[capture[r].taken + 1])]
  /\ NoCall("reader")
  /\ UNCHANGED <<command, port, child, logs, started_at, exit_status,
                 special_status, now, os, readers, last_started, forced,
                 ss_output, main_vars>>

\* A capture thread locks the log, pushes the line it holds and unlocks.
CapturePush ==
  /\ \E r \in readers :
       /\ capture[r].held # None
       /\ Len(logs) < MaxLogLen
       /\ logs' = Append(logs, capture[r].held[1])
       /\ capture' = [capture EXCEPT ![r].held = None]
  /\ NoCall("reader")
  /\ UNCHANGED <<command, port, child, started_at, exit_status,
                 special_status, now, os, readers, last_started, forced,
                 ss_output, main_vars>>

\* A capture thread finds its pipe empty and closed, and ends.
CaptureEnd ==
  /\ \E r \in readers :
       /\ ~Writing(r)
       /\ capture[r].held = None
       /\ capture[r].taken = Len(capture[r].produced)
       /\ readers' = readers \ {r}
  /\ NoCall("reader")
  /\ UNCHANGED <<command, port, child, logs, started_at, exit_status,
                 special_status, now, os, last_started, forced,
                 io_vars, main_vars>>

NextCapture ==
  \/ StartCapturing
  \/ Stop
  \/ RestartCapturing
  \/ ChildExit
  \/ ChildWrite
  \/ CaptureRead
  \/ CapturePush
  \/ CaptureEnd

SpecCapture == InitCapture /\ [][NextCapture]_vars

\* ---------------------------------------------------------------- main.rs
\* main() with a registry of two supervisors of the configured command, no
\* port configured.  A supervisor of the registry is a record of the shape
\* Enter makes, with the record of its own children in `os`.
ProcessNames == <<"api", "web">>
Registry == 1..Len(ProcessNames)

\* ManagedProcess::new, as a record
NewProcess ==
  [child |-> None, logs |-> << >>, started_at |-> None, exit_status |-> None,
   special_status |-> None, now |-> 0, os |-> [p \in ChildPids |-> "none"],
   readers |-> {}, op |-> "new", ret |-> "", sent |-> << >>, spawned |-> 0,
   resolved |-> None, last_started |-> None, ignored |-> FALSE]

\* Supervisor p at the entry of operation o.
Call(p, o) ==
  [p EXCEPT !.op = o, !.ret = "", !.sent = << >>, !.spawned = 0,
            !.resolved = None]

\* The key codes main() reads: those of get_keybinds(), and 'y' and 'n'.
KeyCodes == {"Up", "Down", "r", "s", "x", "Enter", "u", "q", "Esc", "y", "n"}

\* get_keybinds().get(&code): the KeybindType, "" for a code with no bind
keybind(code) ==
  CASE code = "Up" -> "Up"
    [] code = "Down" -> "Down"
    [] code = "r" -> "Restart"
    [] code = "s" -> "Start"
    [] code = "x" -> "Stop"
    [] code = "Enter" -> "Enter"
    [] code = "u" -> "Update"
    [] code = "q" -> "Quit"
    [] code = "Esc" -> "Escape"
    [] OTHER -> ""

\* App::next, App::previous
next(a) ==
  [a EXCEPT !.selected = IF a.selected + 1 >= Len(a.processes) THEN 0
                         ELSE a.selected + 1]
previous(a) ==
  [a EXCEPT !.selected = IF a.selected = 0 THEN Len(a.processes) - 1
                         ELSE a.selected - 1]

\* handle_key: the App and the flag RUNNING it leaves.  term and spawn_result
\* are what the selected supervisor's child does with signal 15 and what
\* cmd.spawn() gives, for the keys that come to them.
handle_key(a, running, code, term, spawn_result) ==
  LET i == a.selected + 1
      bind == keybind(code)
  IN CASE a.view = "List" ->
            [RUNNING |-> running,
             app |->
               CASE bind = "Down" -> next(a)
                 [] bind = "Up" -> previous(a)
                 [] bind = "Restart" ->
                      [a EXCEPT !.processes[i] =
                         restart(Call(@, "restart"), term, None, spawn_result)]
                 [] bind = "Stop" ->
                      [a EXCEPT !.processes[i] = stop(Call(@, "stop"), term, None)]
                 [] bind = "Start" ->
                      [a EXCEPT !.processes[i] = start(Call(@, "start"), spawn_result)]
                 [] bind = "Enter" -> [a EXCEPT !.view = "Logs"]
                 [] bind = "Quit" -> [a EXCEPT !.view = "QuitConfirm"]
                 [] OTHER -> a]
       [] a.view = "QuitConfirm" ->
            CASE code = "y" -> [RUNNING |-> FALSE, app |-> a]
              [] code \in {"n", "Esc"} ->
                   [RUNNING |-> running, app |-> [a EXCEPT !.view = "List"]]
              [] OTHER -> [RUNNING |-> running, app |-> a]
       [] OTHER ->
            [RUNNING |-> running,
             app |->
               CASE bind = "Escape" -> [a EXCEPT !.view = "List"]
                 [] bind = "Up" ->
                      [a EXCEPT !.log_scroll = IF @ > 0 THEN @ - 1 ELSE @]
                 [] bind = "Down" -> [a EXCEPT !.log_scroll = @ + 1]
                 [] OTHER -> a]

\* What the keys that stop or start the selected supervisor meet; one value
\* for the keys that do neither.
KeyTermResults(a, code) ==
  IF a.view = "List" /\ keybind(code) \in {"Restart", "Stop"}
  THEN TermResults(a.processes[a.selected + 1])
  ELSE {None}

KeySpawnResults(a, code, term) ==
  IF a.view = "List" /\ keybind(code) = "Start"
  THEN SpawnResults(a.processes[a.selected + 1])
  ELSE IF a.view = "List" /\ keybind(code) = "Restart"
  THEN SpawnResults(stop(Call(a.processes[a.selected + 1], "restart"), term, None))
  ELSE {None}

InitMain ==
  /\ New
  /\ port = None
  /\ NoIo
  /\ RUNNING = TRUE
  /\ app = [processes |-> << >>, selected |-> 0, view |-> "List",
            log_scroll |-> 0]
  /\ pc = "main"
  /\ keys = 0

supervisor_vars ==
  <<command, port, child, logs, started_at, exit_status, special_status, now,
    os, readers, op, ret, sent, spawned, resolved, last_started, forced>>

\* main() up to the loop: load_config fails and the program exits with 1;
\* TerminalGuard::new() fails and main returns the error; or the registry is
\* built and every supervisor is started.
Setup ==
  /\ pc = "main"
  /\ \/ /\ pc' = "exit1"
        /\ UNCHANGED app
     \/ /\ pc' = "failed"
        /\ UNCHANGED app
     \/ /\ \E rs \in [Registry -> SpawnResults(NewProcess)] :
             app' = [app EXCEPT !.processes =
                       [i \in Registry |-> start(Call(NewProcess, "start"), rs[i])]]
        /\ pc' = "loop"
  /\ UNCHANGED <<supervisor_vars, io_vars, RUNNING, keys>>

\* The handler of ctrlc::set_handler, on its own thread.
Interrupt ==
  /\ pc \notin {"done", "failed", "exit1"}
  /\ RUNNING' = FALSE
  /\ UNCHANGED <<supervisor_vars, io_vars, app, pc, keys>>

\* `while RUNNING.load(..)` finds the flag true.
LoopTest ==
  /\ pc = "loop"
  /\ RUNNING
  /\ pc' = "draw"
  /\ UNCHANGED <<supervisor_vars, io_vars, RUNNING, app, keys>>

\* terminal.draw: the list view asks every supervisor for its status; an
\* error makes main return it.
Draw ==
  /\ pc = "draw"
  /\ \/ /\ pc' = "failed"
        /\ UNCHANGED app
     \/ /\ pc' = "poll"
        /\ app' = IF app.view = "List"
                  THEN [app EXCEPT !.processes =
                          [i \in Registry |-> status(Call(app.processes[i], "status"))]]
                  ELSE app
  /\ UNCHANGED <<supervisor_vars, io_vars, RUNNING, keys>>

\* event::poll and event::read: an error makes main return it; no event
\* within 100 ms, or an event that is no key press, ends the turn; a key
\* press goes to handle_key.
Poll ==
  /\ pc = "poll"
  /\ \/ /\ pc' = "failed"
        /\ UNCHANGED <<RUNNING, app, keys>>
     \/ /\ pc' = "loop"
        /\ UNCHANGED <<RUNNING, app, keys>>
     \/ /\ keys < MaxKeys
        /\ \E code \in KeyCodes :
             \E term \in KeyTermResults(app, code) :
                \E r \in KeySpawnResults(app, code, term) :
                   /\ app' = handle_key(app, RUNNING, code, term, r).app
                   /\ RUNNING' = handle_key(app, RUNNING, code, term, r).RUNNING
        /\ keys' = keys + 1
        /\ pc' = "loop"
  /\ UNCHANGED <<supervisor_vars, io_vars>>

\* `while RUNNING.load(..)` finds the flag false: the loop ends, stop() is
\* called on every supervisor and main returns Ok(()).
Shutdown ==
  /\ pc = "loop"
  /\ ~RUNNING
  /\ \E terms \in [Registry -> {None} \cup {Some(st) : st \in TermExits}] :
       /\ \A i \in Registry : terms[i] \in TermResults(app.processes[i])
       /\ app' = [app EXCEPT !.processes =
                    [i \in Registry |->
                       stop(Call(app.processes[i], "stop"), terms[i], None)]]
  /\ pc' = "done"
  /\ UNCHANGED <<supervisor_vars, io_vars, RUNNING, keys>>

\* A child of a supervisor of the registry exits on its own.
ChildExitMain ==
  /\ pc \in {"loop", "draw", "poll"}
  /\ \E i \in Registry, p \in ChildPids, st \in OwnExits :
       /\ app.processes[i].os[p] = "alive"
       /\ app' = [app EXCEPT !.processes[i].os[p] = st]
  /\ UNCHANGED <<supervisor_vars, io_vars, RUNNING, pc, keys>>

NextMain ==
  \/ Setup
  \/ Interrupt
  \/ LoopTest
  \/ Draw
  \/ Poll
  \/ Shutdown
  \/ ChildExitMain

SpecMain == InitMain /\ [][NextMain]_vars

\* ------------------------------------------------------------------- claims
ChildPidStrings == {to_string(p) : p \in ChildPids}
FailedLine == "Failed to start: No such file or directory"
Last(q) == q[Len(q)]

\* C1: once start() has spawned a child, also after an earlier stop() or
\* restart(), every status() call made while the child is held and running
\* returns "Running".
C1_RunningWhileAlive ==
  (op = "status" /\ child # None /\ os[child[1]] = "alive") => ret = "Running"

\* C2: a start() (or the start() of a restart()) that spawns a child leaves
\* the special-status override absent.
C2_OverrideResetByStart ==
  (op \in {"start", "restart"} /\ spawned = 1) => special_status = None

\* C3: when the child has exited on its own while the supervisor holds the
\* handle, the next status() returns "Stopped", records an exit status, drops
\* the handle and clears the start timestamp; a status() call made with no
\* handle held leaves the recorded exit status as it is.
C3_ReapedOnce ==
  [][(op' = "status" /\ child # None /\ os[child[1]] # "alive"
        => /\ ret' = "Stopped"
           /\ exit_status' = Some(os[child[1]])
           /\ child' = None
           /\ started_at' = None)
     /\ (op' = "status" /\ child = None => exit_status' = exit_status)]_vars

\* C4: after every operation the supervisor holds a child handle if and only
\* if its start timestamp is set.
C4_HandleIffStartedAt == (child # None) <=> (started_at # None)

C4_Witness ==
  /\ op = "stop"
  /\ forced
  /\ child = None
  /\ started_at = None

\* C5: at most one child of the supervisor is alive at any time, and start()
\* called while a handle is held spawns nothing and leaves the handle, the
\* start timestamp, the exit status and the log buffer unchanged.
C5_StartIdempotent ==
  /\ [](Cardinality({p \in ChildPids : os[p] = "alive"}) <= 1)
  /\ [][(op' = "start" /\ child # None)
          => /\ spawned' = 0
             /\ os' = os
             /\ child' = child
             /\ started_at' = started_at
             /\ exit_status' = exit_status
             /\ logs' = logs]_vars

C5_Witness ==
  /\ op = "start"
  /\ spawned = 0
  /\ child # None
  /\ os[child[1]] = "alive"

\* C6: the log buffer never holds more than MAX_LOG_LINES lines.
C6_LogBounded == Len(logs) <= MAX_LOG_LINES

\* C7 as claimed: after a stop() that force-killed the child, no handle is
\* held, the start timestamp is cleared, and every status() until the next
\* start() returns "Stopped" or "Force Killed", with or without a port.
C7_ForceKilledStatus_Claimed ==
  forced => /\ child = None
            /\ started_at = None
            /\ (op = "status" => ret \in {"Stopped", "Force Killed"})

\* C7 as amended: a stop() whose running child does not exit within the
\* grace window sends signal 15 and then signal 9 to the child's pid and
\* returns with no handle held and the start timestamp cleared; every
\* status() until the next start() returns "Force Killed" when no port is
\* configured, and "Killing By Port" or "Killed <pid>" (the status of the
\* port fallback) when one is.
C7_ForceKilledStatus ==
  /\ [][(op' = "stop" /\ forced' /\ ~forced)
          => /\ child # None
             /\ Len(sent') >= 2
             /\ sent'[1] = [sig |-> 15, pid |-> to_string(child[1])]
             /\ sent'[2] = [sig |-> 9, pid |-> to_string(child[1])]
             /\ os'[child[1]] = "none"]_vars
  /\ [](forced =>
          /\ child = None
          /\ started_at = None
          /\ (op = "status" /\ port = None => ret = "Force Killed")
          /\ (op = "status" /\ port # None
                => ret \in {"Killing By Port"}
                           \cup {"Killed " \o to_string(p) : p \in ForeignPids}))

C7_Witness ==
  /\ forced
  /\ op = "status"
  /\ port # None

\* C8: when start() fails to spawn the process, a "Failed to start" line is
\* appended, no handle and no start timestamp are stored, and the status()
\* call that follows returns "Stopped".
C8_FailedStart ==
  [][/\ (op' = "start" /\ logs' = Append(logs, FailedLine))
          => (child' = None /\ started_at' = None)
     /\ (op = "start" /\ spawned = 0 /\ Len(logs) > 0 /\ Last(logs) = FailedLine
           /\ op' = "status")
          => ret' = "Stopped"]_vars

\* C9: stop() with no handle held sends no signal to a child of the
\* supervisor, leaves the handle absent and the exit status unchanged, and
\* runs the port fallback exactly when a port is configured: it resolves the
\* port and sends signal 9 to the pid it resolved, if any.
C9_StopWithoutHandle ==
  [][(op' = "stop" /\ child = None)
       => /\ child' = None
          /\ exit_status' = exit_status
          /\ \A i \in 1..Len(sent') : sent'[i].pid \notin ChildPidStrings
          /\ (port = None => resolved' = None /\ sent' = << >>)
          /\ (port # None
                => /\ resolved' # None
                   /\ sent' = IF resolved'[1] = None THEN << >>
                              ELSE <<[sig |-> 9, pid |-> resolved'[1][1]]>>)]_vars

C9_Witness ==
  /\ op = "stop"
  /\ last_started = None
  /\ resolved # None
  /\ resolved[1] # None
  /\ Len(sent) = 1

\* C10: when restart() ends with a spawn, the start timestamp afterwards is
\* greater than the one held before the restart and than the one recorded by
\* every earlier start.
C10_RestartTimestampGrows ==
  [][(op' = "restart" /\ spawned' = 1)
       => /\ started_at' # None
          /\ (started_at # None => started_at'[1] > started_at[1])
          /\ (last_started # None => started_at'[1] > last_started[1])]_vars

C10_Witness ==
  /\ op = "restart"
  /\ spawned = 1
  /\ started_at # None
  /\ Len(sent) > 0
  /\ sent[1].sig = 15

\* The lines an operation has appended to the log: those of `after` past
\* the end of `before`.
Appended(before, after) == SubSeq(after, Len(before) + 1, Len(after))
StartedLine == "Started: " \o join(command, " ")

\* C11: the log buffer is append-only: in every step (start, stop, restart,
\* status, logs, a capture thread's push) the log before the step is a
\* prefix of the log after it.
C11_LogAppendOnly == [][IsPrefix(logs, logs')]_vars

C11_Witness ==
  /\ op = "restart"
  /\ spawned = 1
  /\ Len(logs) >= 3
  /\ logs[1] = StartedLine
  /\ Last(logs) = StartedLine

\* C12: status() returns the special status when one is set, whatever the
\* child does; otherwise "Running" for a held child that is alive and
\* "Stopped" for a held child that has exited; otherwise "Stopped".
C12_StatusPriority ==
  [][op' = "status"
       => ret' = IF special_status # None THEN special_status[1]
                 ELSE IF child # None
                      THEN (IF os[child[1]] = "alive" THEN "Running"
                            ELSE "Stopped")
                      ELSE "Stopped"]_vars

C12_Witness ==
  /\ op = "status"
  /\ special_status # None
  /\ child # None
  /\ os[child[1]] = "alive"
  /\ ret = special_status[1]

\* C14: when a port is configured and pid_from_port returns None, stop()
\* returns (no handle, no start timestamp), appends no "Killed PID" line
\* (the only lines it may append are those of the child branch) and runs no
\* kill but those for its own child.
C14_NoKillWhenUnresolved ==
  [][(op' = "stop" /\ port # None /\ resolved' = Some(None))
       => /\ child' = None
          /\ started_at' = None
          /\ \A i \in 1..Len(sent') :
               child # None /\ sent'[i].pid = to_string(child[1])
          /\ \A i \in 1..Len(Appended(logs, logs')) :
               Appended(logs, logs')[i] \in {"Stopped gracefully", "Force killed"}
          /\ (child = None => logs' = logs)]_vars

C14_Witness ==
  /\ op = "stop"
  /\ port # None
  /\ resolved = Some(None)
  /\ Len(sent) = 2

\* C15: start() with an empty command and no handle held appends the one
\* line "Command is empty" and changes nothing else: no process is spawned,
\* no capture thread is started, and handle, start timestamp, exit status
\* and special status stay as they were.
C15_EmptyCommandStart ==
  [][(op' = "start" /\ Len(command) = 0 /\ child = None)
       => /\ logs' = Append(logs, "Command is empty")
          /\ spawned' = 0
          /\ os' = os
          /\ readers' = readers
          /\ now' = now
          /\ child' = child
          /\ started_at' = started_at
          /\ exit_status' = exit_status
          /\ special_status' = special_status]_vars

C15_Witness ==
  /\ op = "start"
  /\ Len(command) = 0
  /\ special_status # None
  /\ Len(logs) >= 1
  /\ Last(logs) = "Command is empty"

\* C16: a status() call made when no child is held (the child of the last
\* stop() has been waited for) leaves the special status cleared, so that
\* the status() calls after it return "Stopped".
C16_OverrideClearedByStatus ==
  (op = "status" /\ child = None /\ last_started # None)
    => special_status = None

\* C17: stop() with a handle held first sends signal 15 to the child's pid;
\* when the child is seen to have exited within the grace window it records
\* the exit status, logs "Stopped gracefully" and sends no signal 9 to the
\* child's pid; it sends signal 9 to the child's pid, after the signal 15,
\* exactly when the window has elapsed without an exit seen.
C17_GracefulBeforeForce ==
  [][(op' = "stop" /\ child # None)
       => LET pid == to_string(child[1])
              nines == {i \in 1..Len(sent') : sent'[i] = [sig |-> 9, pid |-> pid]}
          IN /\ Len(sent') >= 1
             /\ sent'[1] = [sig |-> 15, pid |-> pid]
             /\ (~forced' => /\ nines = {}
                             /\ exit_status' # None
                             /\ (os[child[1]] # "alive"
                                   => exit_status' = Some(os[child[1]]))
                             /\ Appended(logs, logs')[1] = "Stopped gracefully")
             /\ (forced' => /\ nines = {2}
                            /\ exit_status' = exit_status
                            /\ Appended(logs, logs')[1] = "Force killed")]_vars

C17_Witness ==
  /\ op = "stop"
  /\ ~forced
  /\ sent = <<[sig |-> 15, pid |-> "1"]>>
  /\ exit_status = Some("signal15")
  /\ Last(logs) = "Stopped gracefully"

\* C18: with a port configured every stop() (that of restart() too) runs the
\* kill by port once, after the steps for its own child and whether that
\* child exited gracefully, was force-killed or was absent: pid_from_port is
\* called, a pid it returns gets the one signal 9 that ends the kills and
\* the "Killed PID" line, and the special status at the end is that of the
\* kill by port ("Killed <pid>", or "Killing By Port" when nothing was
\* resolved).
C18_PortFallbackAlways ==
  [][(op' \in {"stop", "restart"} /\ port # None)
       => /\ resolved' # None
          /\ LET found == resolved'[1]
                 own == IF child = None THEN {} ELSE {to_string(child[1])}
                 others == {i \in 1..Len(sent') : sent'[i].pid \notin own}
             IN IF found = None
                THEN /\ others = {}
                     /\ special_status' = Some("Killing By Port")
                ELSE /\ others = {Len(sent')}
                     /\ sent'[Len(sent')] = [sig |-> 9, pid |-> found[1]]
                     /\ special_status' = Some("Killed " \o found[1])
                     /\ \E i \in 1..Len(Appended(logs, logs')) :
                          Appended(logs, logs')[i] =
                            "Killed PID " \o found[1] \o " on port "
                              \o to_string(port[1])]_vars

C18_Witness ==
  /\ op = "stop"
  /\ port # None
  /\ ~forced
  /\ Len(sent) = 2
  /\ sent[1].sig = 15
  /\ resolved # None
  /\ resolved[1] # None
  /\ special_status = Some("Killed " \o resolved[1][1])

\* The lines of a socket table that listen on exactly port p and carry a
\* pid= token.
ExactLines(p, t) ==
  IF t = None THEN {}
  ELSE {i \in 1..Len(t[1]) : t[1][i].local = p /\ t[1][i].pid # None}

\* C20: pid_from_port(p) returns the pid of the first socket of the table
\* whose local port is exactly p and that carries a pid= token, and None
\* when the table has no such socket; so the pid a stop() kills by port is
\* the pid of a socket on exactly that port.
C20_ExactPortOnly ==
  /\ op = "pid_from_port"
       => resolved[1] =
            IF ExactLines(port[1], ss_output) = {} THEN None
            ELSE LET first == CHOOSE i \in ExactLines(port[1], ss_output) :
                                \A j \in ExactLines(port[1], ss_output) : i <= j
                 IN Some(to_string(ss_output[1][first].pid[1]))
  /\ op = "stop"
       => \A i \in 1..Len(sent) :
            \E j \in ExactLines(port[1], ss_output) :
               sent[i].pid = to_string(ss_output[1][j].pid[1])

\* The lines of the log that came from the stream of capture thread r, in
\* the order of the log.
FromStream(r) ==
  SelectSeq(logs, LAMBDA l : \E i \in 1..MaxLines + 1 : l = LineText(r, i))

\* The lines capture thread r has read from its stream and no longer holds.
Handled(r) ==
  [i \in 1..(capture[r].taken - Len(capture[r].held)) |->
     capture[r].produced[i].text]

\* C19: for every capture thread, of this run or of an earlier one, the
\* lines of its stream in the log are the lines it has read from the stream,
\* each once, in the order the stream produced them (the line it has read
\* and not yet pushed aside).
C19_EveryLineOnceInOrder ==
  \A r \in DOMAIN capture : FromStream(r) = Handled(r)

\* C13: once the flag RUNNING has been set to false, the loop of main() ends
\* and stop() is called on every supervisor of the registry, so that when
\* the program has ended no supervisor holds the handle of a child and no
\* child it spawned is left running.
C13_ShutdownStopsAll ==
  (pc \in {"done", "failed"} /\ ~RUNNING)
    => \A i \in 1..Len(app.processes) :
          /\ app.processes[i].child = None
          /\ \A p \in ChildPids : app.processes[i].os[p] # "alive"

\* C21: after every operation a supervisor that holds a child handle has no
\* recorded exit status; every start() that spawns a child leaves the exit
\* status cleared; and an exit status is recorded only in a step that gives
\* the handle up: a status() that finds the child exited, or a stop() (that
\* of restart() too) whose child exited within the grace window.
C21_NoExitStatusWhileHeld ==
  /\ [](child # None => exit_status = None)
  /\ [][/\ (op' \in {"start", "restart"} /\ spawned' = 1)
             => exit_status' = None
        /\ (exit_status' # None /\ exit_status' # exit_status)
             => /\ child # None
                /\ child' = None
                /\ op' \in {"status", "stop", "restart"}
                /\ (op' = "status" => /\ os[child[1]] # "alive"
                                      /\ exit_status' = Some(os[child[1]]))
                /\ (op' = "stop" => ~forced')]_vars

C21_Witness ==
  /\ op = "start"
  /\ spawned = 1
  /\ child # None
  /\ exit_status = None
  /\ Len(logs) = 3
  /\ logs[2] = "Stopped gracefully"

====
